---- MODULE Spec2Model ----
(***************************************************************************)
(* Model of main.py: three input guardrails (class timing, father          *)
(* temperature, school gatekeeper), the agents that carry them, and the    *)
(* main() routine that runs each agent on a fixed input.                   *)
(*                                                                         *)
(* A text is a sequence of characters; a character is a one-character      *)
(* string, or the code point name of a non-ASCII character ("U+00B0" is    *)
(* the degree sign, "U+1F62D" an emoji, "U+0663" ARABIC-INDIC DIGIT THREE).*)
(***************************************************************************)
EXTENDS Integers, Sequences, FiniteSets, TLC

\* ------------------------------------------------------------------------
\* Bounds of the explored inputs
\* ------------------------------------------------------------------------

\* a string input is the concatenation of at most MaxFrags vocabulary fragments
MaxFrags == 3

\* a list input holds at most MaxMsgs messages
MaxMsgs == 2

\* ------------------------------------------------------------------------
\* Python built-ins used by the guardrails
\* ------------------------------------------------------------------------

UpperAlpha == <<"A","B","C","D","E","F","G","H","I","J","K","L","M",
                "N","O","P","Q","R","S","T","U","V","W","X","Y","Z">>

LowerAlpha == <<"a","b","c","d","e","f","g","h","i","j","k","l","m",
                "n","o","p","q","r","s","t","u","v","w","x","y","z">>

AsciiDigits == <<"0","1","2","3","4","5","6","7","8","9">>

\* decimal digits outside ASCII (Unicode category Nd) that the inputs use
UnicodeDigits == [c \in {"U+0663"} |-> 3]

Range(s) == {s[i] : i \in DOMAIN s}

IndexOf(s, c) == CHOOSE i \in DOMAIN s : s[i] = c

\* str.lower() on one character
lower_char(c) ==
    IF c \in Range(UpperAlpha) THEN LowerAlpha[IndexOf(UpperAlpha, c)] ELSE c

\* str.lower()
lower(s) == [i \in DOMAIN s |-> lower_char(s[i])]

\* the `in` operator on strings: needle occurs in text as a substring
contains(needle, text) ==
    \E i \in 1..(Len(text) - Len(needle) + 1) :
        SubSeq(text, i, i + Len(needle) - 1) = needle

\* whitespace: str.strip() and the regex class \s
IsSpace(c) == c \in {" ", "\t", "\n", "\r"}

\* the regex class \d of a str pattern: any Unicode decimal digit
IsDigit(c) == c \in Range(AsciiDigits) \/ c \in DOMAIN UnicodeDigits

\* the regex class \w of a str pattern (decides \b)
IsWord(c) ==
    \/ c \in Range(LowerAlpha)
    \/ c \in Range(UpperAlpha)
    \/ IsDigit(c)
    \/ c = "_"

\* the value int() gives one decimal digit
DigitValue(c) ==
    IF c \in Range(AsciiDigits) THEN IndexOf(AsciiDigits, c) - 1
    ELSE UnicodeDigits[c]

\* int() of a string of decimal digits
RECURSIVE int(_)
int(s) ==
    IF Len(s) = 0 THEN 0
    ELSE 10 * int(SubSeq(s, 1, Len(s) - 1)) + DigitValue(s[Len(s)])

\* str.strip()
RECURSIVE strip(_)
strip(s) ==
    IF Len(s) = 0 THEN s
    ELSE IF IsSpace(s[1]) THEN strip(Tail(s))
    ELSE IF IsSpace(s[Len(s)]) THEN strip(SubSeq(s, 1, Len(s) - 1))
    ELSE s

\* Python's None and a present value
None == <<>>

Some(x) == <<x>>

\* ------------------------------------------------------------------------
\* Raw inputs: a str, or a list of items.  An item is a plain str, or an
\* object with a `content` attribute and its own string form.
\* ------------------------------------------------------------------------

StrInput(s) == [is_list |-> FALSE, str |-> s, items |-> <<>>]

ListInput(items) == [is_list |-> TRUE, str |-> <<>>, items |-> items]

PlainItem(s) == [has_content |-> FALSE, content |-> <<>>, repr |-> s]

\* the string form of a message object is not its content
MessageRepr == <<"<","m","s","g",">">>

MessageItem(s) == [has_content |-> TRUE, content |-> s, repr |-> MessageRepr]

\* str(getattr(i, "content", i))
item_text(i) == IF i.has_content THEN i.content ELSE i.repr

\* mutant: the separator is dropped
RECURSIVE join_no_separator(_, _)
join_no_separator(sep, strs) ==
    IF Len(strs) = 0 THEN <<>>
    ELSE join_no_separator(sep, SubSeq(strs, 1, Len(strs) - 1)) \o strs[Len(strs)]

\* sep.join(strs), accumulating from the left
RECURSIVE join(_, _)
join(sep, strs) ==
    IF Len(strs) = 0 THEN <<>>
    ELSE IF Len(strs) = 1 THEN strs[1]
    ELSE join(sep, SubSeq(strs, 1, Len(strs) - 1)) \o sep \o strs[Len(strs)]

\* the "unified" string of an input
unify(input) ==
    IF input.is_list
    THEN join(<<" ">>, [k \in DOMAIN input.items |-> item_text(input.items[k])])
    ELSE input.str

\* GuardrailFunctionOutput(output_info=..., tripwire_triggered=...)
GuardrailFunctionOutput(info, tripped) ==
    [output_info |-> info, tripwire_triggered |-> tripped]

\* ------------------------------------------------------------------------
\* Exercise 1: class timing guardrail
\* ------------------------------------------------------------------------

ClassTimingPhrase ==
    <<"c","h","a","n","g","e"," ","m","y"," ","c","l","a","s","s"," ",
      "t","i","m","i","n","g">>

ClassTimingsPhrase == ClassTimingPhrase \o <<"s">>

\* mutant: the diagnostics carry the lowercased text
class_timing_guardrail_lowered_info(input) ==
    LET unified == unify(input)
        text == lower(unified)
    IN  IF contains(ClassTimingPhrase, text) \/ contains(ClassTimingsPhrase, text)
        THEN GuardrailFunctionOutput(
                 [reason |-> "user asked to change class timings",
                  text |-> text], TRUE)
        ELSE GuardrailFunctionOutput([ok |-> TRUE, text |-> text], FALSE)

\* mutant: the phrase is looked for in the text as given, not lowercased
class_timing_guardrail_case_sensitive(input) ==
    LET unified == unify(input)
    IN  IF contains(ClassTimingPhrase, unified)
           \/ contains(ClassTimingsPhrase, unified)
        THEN GuardrailFunctionOutput(
                 [reason |-> "user asked to change class timings",
                  text |-> unified], TRUE)
        ELSE GuardrailFunctionOutput([ok |-> TRUE, text |-> unified], FALSE)

class_timing_guardrail(input) ==
    LET unified == unify(input)
        text == lower(unified)
    IN  IF contains(ClassTimingPhrase, text) \/ contains(ClassTimingsPhrase, text)
        THEN GuardrailFunctionOutput(
                 [reason |-> "user asked to change class timings",
                  text |-> unified], TRUE)
        ELSE GuardrailFunctionOutput([ok |-> TRUE, text |-> unified], FALSE)

\* ------------------------------------------------------------------------
\* Exercise 2: father temperature guardrail
\* ------------------------------------------------------------------------

\* the character at position p, or "" past the end of the text
CharAt(text, p) == IF p \in DOMAIN text THEN text[p] ELSE ""

\* the position after the longest run of whitespace starting at p (\s*)
RECURSIVE SkipSpaces(_, _)
SkipSpaces(text, p) ==
    IF IsSpace(CharAt(text, p)) THEN SkipSpaces(text, p + 1) ELSE p

DegreeSign == "U+00B0"

DegreesWord == <<" ","d","e","g","r","e","e","s">>

\* Each alternative of the unit group, tried at position p: the position
\* after its match, or 0 when it does not match there.

\* \s*°\s*c
AltDegSpaceC(text, p) ==
    LET q == SkipSpaces(text, p)
        r == SkipSpaces(text, q + 1)
    IN  IF CharAt(text, q) = DegreeSign /\ CharAt(text, r) = "c"
        THEN r + 1 ELSE 0

\* \s*°c
AltDegC(text, p) ==
    LET q == SkipSpaces(text, p)
    IN  IF CharAt(text, q) = DegreeSign /\ CharAt(text, q + 1) = "c"
        THEN q + 2 ELSE 0

\* \s*c\b
AltCWord(text, p) ==
    LET q == SkipSpaces(text, p)
    IN  IF CharAt(text, q) = "c" /\ ~IsWord(CharAt(text, q + 1))
        THEN q + 1 ELSE 0

\* °
AltDeg(text, p) == IF CharAt(text, p) = DegreeSign THEN p + 1 ELSE 0

\* " degrees"
AltDegrees(text, p) ==
    IF p + Len(DegreesWord) - 1 <= Len(text)
       /\ SubSeq(text, p, p + Len(DegreesWord) - 1) = DegreesWord
    THEN p + Len(DegreesWord) ELSE 0

\* (?:...|...)? at position p: the first alternative that matches, else empty
UnitGroupEnd(text, p) ==
    IF AltDegSpaceC(text, p) # 0 THEN AltDegSpaceC(text, p)
    ELSE IF AltDegC(text, p) # 0 THEN AltDegC(text, p)
    ELSE IF AltCWord(text, p) # 0 THEN AltCWord(text, p)
    ELSE IF AltDeg(text, p) # 0 THEN AltDeg(text, p)
    ELSE IF AltDegrees(text, p) # 0 THEN AltDegrees(text, p)
    ELSE p

\* mutant: the digit group is lazy and takes one digit
DigitGroupLen_lazy(text, i) == IF IsDigit(CharAt(text, i)) THEN 1 ELSE 0

\* (\d{1,2}) at position i, greedy: the number of digits taken, 0 for no match
DigitGroupLen(text, i) ==
    IF IsDigit(CharAt(text, i)) /\ IsDigit(CharAt(text, i + 1)) THEN 2
    ELSE IF IsDigit(CharAt(text, i)) THEN 1
    ELSE 0

\* re.search(r"(\d{1,2})(?:\s*°\s*c|\s*°c|\s*c\b|°| degrees)?", text):
\* None, or the leftmost match with its group 1 and its span
temp_search(text) ==
    LET starts == {i \in DOMAIN text : DigitGroupLen(text, i) > 0}
    IN  IF starts = {} THEN None
        ELSE LET i == CHOOSE x \in starts : \A y \in starts : x <= y
                 n == DigitGroupLen(text, i)
             IN  Some([group1 |-> SubSeq(text, i, i + n - 1),
                       start |-> i,
                       end |-> UnitGroupEnd(text, i + n)])

\* mutant: the threshold is inclusive
father_temp_guardrail_inclusive(input) ==
    LET unified == unify(input)
        text == lower(unified)
        m == temp_search(text)
    IN  IF m # None
        THEN LET temp == int(m[1].group1)
                 info == [detected_temp |-> Some(temp), text |-> unified]
             IN  GuardrailFunctionOutput(info, temp <= 26)
        ELSE GuardrailFunctionOutput(
                 [detected_temp |-> None, text |-> unified], FALSE)

\* mutant: the comparison is reversed
father_temp_guardrail_reversed(input) ==
    LET unified == unify(input)
        text == lower(unified)
        m == temp_search(text)
    IN  IF m # None
        THEN LET temp == int(m[1].group1)
                 info == [detected_temp |-> Some(temp), text |-> unified]
             IN  GuardrailFunctionOutput(info, temp > 26)
        ELSE GuardrailFunctionOutput(
                 [detected_temp |-> None, text |-> unified], FALSE)

\* mutant: a text with no temperature trips the guardrail
father_temp_guardrail_trip_on_none(input) ==
    LET unified == unify(input)
        text == lower(unified)
        m == temp_search(text)
    IN  IF m # None
        THEN LET temp == int(m[1].group1)
                 info == [detected_temp |-> Some(temp), text |-> unified]
             IN  GuardrailFunctionOutput(info, temp < 26)
        ELSE GuardrailFunctionOutput(
                 [detected_temp |-> None, text |-> unified], TRUE)

father_temp_guardrail(input) ==
    LET unified == unify(input)
        text == lower(unified)
        m == temp_search(text)
    IN  IF m # None
        THEN LET temp == int(m[1].group1)
                 info == [detected_temp |-> Some(temp), text |-> unified]
             IN  IF temp < 26
                 THEN GuardrailFunctionOutput(info, TRUE)
                 ELSE GuardrailFunctionOutput(info, FALSE)
        ELSE GuardrailFunctionOutput(
                 [detected_temp |-> None, text |-> unified], FALSE)

\* ------------------------------------------------------------------------
\* Exercise 3: gatekeeper guardrail
\* ------------------------------------------------------------------------

\* mutant: the last phrase of the list is missing
triggers_without_last ==
    << <<"o","t","h","e","r"," ","s","c","h","o","o","l">>,
       <<"d","i","f","f","e","r","e","n","t"," ","s","c","h","o","o","l">>,
       <<"n","o","t"," ","f","r","o","m"," ","m","y"," ","s","c","h","o","o","l">>,
       <<"f","r","o","m"," ","o","t","h","e","r"," ","s","c","h","o","o","l">> >>

triggers ==
    << <<"o","t","h","e","r"," ","s","c","h","o","o","l">>,
       <<"d","i","f","f","e","r","e","n","t"," ","s","c","h","o","o","l">>,
       <<"n","o","t"," ","f","r","o","m"," ","m","y"," ","s","c","h","o","o","l">>,
       <<"f","r","o","m"," ","o","t","h","e","r"," ","s","c","h","o","o","l">>,
       <<"s","t","u","d","e","n","t"," ","f","r","o","m"," ">> >>

FromMySchool == <<"f","r","o","m"," ","m","y"," ","s","c","h","o","o","l">>

MySchoolStudent ==
    <<"m","y"," ","s","c","h","o","o","l"," ","s","t","u","d","e","n","t">>

MySchool == <<"m","y"," ","s","c","h","o","o","l">>

SchoolWord == <<"s","c","h","o","o","l">>

\* the regex class [:\s-]
IsSeparator(c) == c \in {":", "-"} \/ IsSpace(c)

\* the regex class [a-z0-9 ]
IsNameChar(c) ==
    c \in Range(LowerAlpha) \/ c \in Range(AsciiDigits) \/ c = " "

\* the position after the longest run of separators starting at p
RECURSIVE SkipSeparators(_, _)
SkipSeparators(text, p) ==
    IF IsSeparator(CharAt(text, p)) THEN SkipSeparators(text, p + 1) ELSE p

\* the position after the longest run of name characters starting at p
RECURSIVE SkipNameChars(_, _)
SkipNameChars(text, p) ==
    IF IsNameChar(CharAt(text, p)) THEN SkipNameChars(text, p + 1) ELSE p

\* mutant: the separator run is possessive and gives nothing back
SchoolGroupStart_possessive(text, i) ==
    IF i + Len(SchoolWord) - 1 > Len(text)
       \/ SubSeq(text, i, i + Len(SchoolWord) - 1) # SchoolWord
    THEN 0
    ELSE LET k == SkipSeparators(text, i + Len(SchoolWord))
         IN  IF IsNameChar(CharAt(text, k)) THEN k ELSE 0

\* Where group 1 starts when the pattern matches at i, 0 when it does not:
\* "school", then the greedy separator run, which gives characters back
\* until a name character follows it.
SchoolGroupStart(text, i) ==
    IF i + Len(SchoolWord) - 1 > Len(text)
       \/ SubSeq(text, i, i + Len(SchoolWord) - 1) # SchoolWord
    THEN 0
    ELSE LET j == i + Len(SchoolWord)
             k == SkipSeparators(text, j)
             cands == {g \in j..k : IsNameChar(CharAt(text, g))}
         IN  IF cands = {} THEN 0
             ELSE CHOOSE g \in cands : \A h \in cands : h <= g

\* re.search(r"school[:\s-]*([a-z0-9 ]+)", text)
school_search(text) ==
    LET starts == {i \in DOMAIN text : SchoolGroupStart(text, i) > 0}
    IN  IF starts = {} THEN None
        ELSE LET i == CHOOSE x \in starts : \A y \in starts : x <= y
                 g == SchoolGroupStart(text, i)
                 e == SkipNameChars(text, g)
             IN  Some([group1 |-> SubSeq(text, g, e - 1),
                       start |-> i,
                       end |-> e])

\* the result of the gatekeeper's checks that follow the allow test
gatekeeper_deny(unified, text) ==
    IF \E k \in DOMAIN triggers : contains(triggers[k], text)
    THEN GuardrailFunctionOutput(
             [reason |-> "other school detected", text |-> unified], TRUE)
    ELSE LET m == school_search(text)
             school_name == IF m # None THEN strip(m[1].group1) ELSE <<>>
         IN  IF m # None /\ ~contains(MySchool, school_name)
             THEN GuardrailFunctionOutput(
                      [school_name |-> school_name, text |-> unified], TRUE)
             ELSE GuardrailFunctionOutput(
                      [allowed |-> TRUE, text |-> unified], FALSE)

\* mutant: the deny checks run before the allow test
gatekeeper_guardrail_deny_first(input) ==
    LET unified == unify(input)
        text == lower(unified)
        denied == gatekeeper_deny(unified, text)
    IN  IF denied.tripwire_triggered THEN denied
        ELSE IF contains(FromMySchool, text) \/ contains(MySchoolStudent, text)
        THEN GuardrailFunctionOutput(
                 [allowed |-> TRUE, text |-> unified], FALSE)
        ELSE denied

gatekeeper_guardrail(input) ==
    LET unified == unify(input)
        text == lower(unified)
    IN  IF contains(FromMySchool, text) \/ contains(MySchoolStudent, text)
        THEN GuardrailFunctionOutput(
                 [allowed |-> TRUE, text |-> unified], FALSE)
        ELSE gatekeeper_deny(unified, text)

\* ------------------------------------------------------------------------
\* Agents and the runner
\* ------------------------------------------------------------------------

class_timing_agent ==
    [name |-> "ClassTimingAgent",
     input_guardrails |-> <<"class_timing_guardrail">>]

father_agent ==
    [name |-> "FatherAgent",
     input_guardrails |-> <<"father_temp_guardrail">>]

gatekeeper_agent ==
    [name |-> "GateKeeperAgent",
     input_guardrails |-> <<"gatekeeper_guardrail">>]

Agents == {class_timing_agent, father_agent, gatekeeper_agent}

\* the function a guardrail name is bound to by @input_guardrail
call_guardrail(g, input) ==
    CASE g = "class_timing_guardrail" -> class_timing_guardrail(input)
      [] g = "father_temp_guardrail" -> father_temp_guardrail(input)
      [] g = "gatekeeper_guardrail" -> gatekeeper_guardrail(input)

\* the three Runner.run calls of main(), in order; in the printed lines the
\* dash and the degree sign of the source are written in ASCII
Exercises ==
    << [agent |-> class_timing_agent,
        input |-> <<"I"," ","w","a","n","t"," ","t","o"," ","c","h","a","n",
                    "g","e"," ","m","y"," ","c","l","a","s","s"," ","t","i",
                    "m","i","n","g","s"," ","U+1F62D","U+1F62D">>,
        header |-> "\n--- Exercise 1: Input GuardRail (class timings) ---",
        log |-> "[LOG] Exercise 1: InputGuardRailTripwireTriggered (class timings)",
        unexpected |-> "Unexpected: agent ran without tripwire."],
       [agent |-> father_agent,
        input |-> <<"C","h","i","l","d",":"," ","I"," ","w","a","n","t"," ",
                    "t","o"," ","g","o"," ","f","o","r"," ","a"," ","r","u",
                    "n"," ","a","t"," ","2","4","U+00B0","C">>,
        header |-> "\n--- Exercise 2: Father guardrail (temperature) ---",
        log |-> "[LOG] Exercise 2: FatherGuardrailTripwireTriggered - child blocked (temp < 26 C)",
        unexpected |-> "Unexpected: father-agent allowed running."],
       [agent |-> gatekeeper_agent,
        input |-> <<"S","t","u","d","e","n","t"," ","f","r","o","m"," ","O",
                    "t","h","e","r"," ","S","c","h","o","o","l"," ","w","a",
                    "n","t","s"," ","t","o"," ","e","n","t","e","r"," ","t",
                    "h","e"," ","p","r","e","m","i","s","e","s">>,
        header |-> "\n--- Exercise 3: Gatekeeper guardrail (other school) ---",
        log |-> "[LOG] Exercise 3: GateKeeperGuardrailTripwireTriggered - student blocked (other school)",
        unexpected |-> "Unexpected: gatekeeper allowed entry."] >>

\* ------------------------------------------------------------------------
\* The inputs explored for each agent: texts built from a vocabulary of
\* fragments that make the guardrail's cases happen
\* ------------------------------------------------------------------------

ClassTimingVocab ==
    { <<"c","h","a","n","g","e"," ","m","y"," ","c","l","a","s","s">>,
      <<"C","H","A","N","G","E"," ","M","y"," ","C","l","a","s","s">>,
      <<" ","t","i","m","i","n","g">>,
      <<"t","i","m","i","n","g">>,
      <<"s">>,
      <<"x">> }

FatherVocab ==
    { <<"2">>, <<"5">>, <<"6">>, <<"U+0663">>,
      <<" ","a","t"," ">>,
      <<"3","0","U+00B0","C">>,
      <<"U+00B0","C">>,
      <<" ","c">> }

GatekeeperVocab ==
    { <<"f","r","o","m"," ">>,
      <<"m","y"," ","s","c","h","o","o","l">>,
      <<" ","s","t","u","d","e","n","t">>,
      <<"O","t","h","e","r"," ","S","c","h","o","o","l">>,
      <<"d","i","f","f","e","r","e","n","t"," ","s","c","h","o","o","l">>,
      <<"n","o","t"," ">>,
      <<":","-"," ">>,
      <<"!">> }

Vocab(a) ==
    CASE a = class_timing_agent -> ClassTimingVocab
      [] a = father_agent -> FatherVocab
      [] a = gatekeeper_agent -> GatekeeperVocab

\* the concatenations of at most n fragments of V
RECURSIVE Texts(_, _)
Texts(V, n) ==
    IF n = 0 THEN {<<>>}
    ELSE Texts(V, n - 1) \cup {t \o f : t \in Texts(V, n - 1), f \in V}

\* the lists of at most n items, each a fragment of V as a plain str or as
\* the content of a message object
RECURSIVE ItemLists(_, _)
ItemLists(V, n) ==
    IF n = 0 THEN {<<>>}
    ELSE ItemLists(V, n - 1)
         \cup {Append(l, i) : l \in {x \in ItemLists(V, n - 1) : Len(x) = n - 1},
                              i \in {PlainItem(f) : f \in V}
                                    \cup {MessageItem(f) : f \in V}}

Inputs(a) ==
    {StrInput(t) : t \in Texts(Vocab(a), MaxFrags)}
    \cup {ListInput(l) : l \in ItemLists(Vocab(a), MaxMsgs)}

\* ------------------------------------------------------------------------
\* State
\* ------------------------------------------------------------------------

VARIABLES
    caller,             \* "main": the run of main(); "host": one Runner.run
                        \* call by any other caller of the agents
    pc,                 \* where the caller is
    exercise,           \* main(): the exercise being run (0 for a host)
    agent,              \* Runner.run: the agent being run
    input,              \* Runner.run: its input
    guardrail_results,  \* Runner.run: the outputs of the agent's guardrails
    model_calls,        \* how many times an agent was executed
    stdout              \* the lines printed

vars == <<caller, pc, exercise, agent, input, guardrail_results,
          model_calls, stdout>>

NoInput == StrInput(<<>>)

Init ==
    /\ guardrail_results = <<>>
    /\ model_calls = 0
    /\ stdout = <<>>
    /\ \/ /\ caller = "main"
          /\ pc = "main_print"
          /\ exercise = 1
          /\ agent = class_timing_agent
          /\ input = NoInput
       \/ /\ caller = "host"
          /\ pc = "run_guardrails"
          /\ exercise = 0
          /\ agent \in Agents
          /\ input \in Inputs(agent)

\* main(): print("\n--- Exercise n ... ---")
MainPrintHeader ==
    /\ caller = "main"
    /\ pc = "main_print"
    /\ stdout' = Append(stdout, Exercises[exercise].header)
    /\ pc' = "main_call"
    /\ UNCHANGED <<caller, exercise, agent, input, guardrail_results, model_calls>>

\* main(): await Runner.run(<agent>, "<input>")
MainCallRunner ==
    /\ caller = "main"
    /\ pc = "main_call"
    /\ agent' = Exercises[exercise].agent
    /\ input' = StrInput(Exercises[exercise].input)
    /\ guardrail_results' = <<>>
    /\ pc' = "run_guardrails"
    /\ UNCHANGED <<caller, exercise, model_calls, stdout>>

\* Runner.run: the agent's input guardrails are evaluated on the input
RunInputGuardrails ==
    /\ pc = "run_guardrails"
    /\ guardrail_results' =
           [k \in DOMAIN agent.input_guardrails |->
               call_guardrail(agent.input_guardrails[k], input)]
    /\ pc' = "run_decide"
    /\ UNCHANGED <<caller, exercise, agent, input, model_calls, stdout>>

tripwire_triggered ==
    \E k \in DOMAIN guardrail_results : guardrail_results[k].tripwire_triggered

\* Runner.run: a triggered guardrail raises InputGuardrailTripwireTriggered
RaiseTripwire ==
    /\ pc = "run_decide"
    /\ tripwire_triggered
    /\ pc' = "raised"
    /\ UNCHANGED <<caller, exercise, agent, input, guardrail_results,
                   model_calls, stdout>>

\* Runner.run: with no guardrail triggered the agent is executed
RunAgent ==
    /\ pc = "run_decide"
    /\ ~tripwire_triggered
    /\ model_calls' = model_calls + 1
    /\ pc' = "returned"
    /\ UNCHANGED <<caller, exercise, agent, input, guardrail_results, stdout>>

\* main(): the rest of the try statement around Runner.run, then the next
\* exercise
MainAfterRun ==
    /\ caller = "main"
    /\ pc \in {"raised", "returned"}
    /\ stdout' = Append(stdout,
                        IF pc = "raised" THEN Exercises[exercise].log
                        ELSE Exercises[exercise].unexpected)
    /\ IF exercise < Len(Exercises)
       THEN exercise' = exercise + 1 /\ pc' = "main_print"
       ELSE exercise' = exercise /\ pc' = "done"
    /\ UNCHANGED <<caller, agent, input, guardrail_results, model_calls>>

Next ==
    \/ MainPrintHeader
    \/ MainCallRunner
    \/ RunInputGuardrails
    \/ RaiseTripwire
    \/ RunAgent
    \/ MainAfterRun

Spec == Init /\ [][Next]_vars

\* ------------------------------------------------------------------------
\* Vocabulary of the properties
\* ------------------------------------------------------------------------

\* the text of one list element: its content if it has one, else its
\* string form
ElementText(i) == IF i.has_content THEN i.content ELSE i.repr

\* the element texts in list order, one space between consecutive elements
RECURSIVE SpaceJoined(_)
SpaceJoined(items) ==
    IF Len(items) = 0 THEN <<>>
    ELSE IF Len(items) = 1 THEN ElementText(items[1])
    ELSE ElementText(items[1]) \o <<" ">> \o SpaceJoined(Tail(items))

\* the flattening of a raw input to one string, in its original case
FlatText(in) == IF in.is_list THEN SpaceJoined(in.items) ELSE in.str

\* the lowercased flattened text of the current input
MatchedText == lower(FlatText(input))

\* the guardrail g of the running agent has returned its verdict
HasVerdict(g) ==
    /\ guardrail_results # <<>>
    /\ agent.input_guardrails[1] = g

Verdict == guardrail_results[1]

Info == guardrail_results[1].output_info

\* ------------------------------------------------------------------------
\* C1
\* ------------------------------------------------------------------------

\* C1: the class timing guardrail triggers if and only if the lowercased
\* flattened text contains "change my class timing" as a plain substring,
\* whatever the case of the input and whatever surrounds the phrase.
C1_ClassTimingIff ==
    HasVerdict("class_timing_guardrail") =>
        (Verdict.tripwire_triggered <=> contains(ClassTimingPhrase, MatchedText))

\* the guardrail triggered on an input that is not lowercase and in which
\* the phrase is followed by more characters
C1_Witness ==
    /\ HasVerdict("class_timing_guardrail")
    /\ Verdict.tripwire_triggered
    /\ FlatText(input) # MatchedText
    /\ contains(ClassTimingsPhrase, MatchedText)
    /\ Len(MatchedText) > Len(ClassTimingPhrase)

\* ------------------------------------------------------------------------
\* C2, C5, C8: the numbers of a text
\* ------------------------------------------------------------------------

\* a..b is a number of the text: a maximal run of decimal digits
IsNumber(text, a, b) ==
    /\ a <= b
    /\ \A q \in a..b : IsDigit(text[q])
    /\ ~IsDigit(CharAt(text, a - 1))
    /\ ~IsDigit(CharAt(text, b + 1))

Numbers(text) ==
    {n \in (DOMAIN text) \X (DOMAIN text) : IsNumber(text, n[1], n[2])}

\* the leftmost number of a text that has one
FirstNumber(text) ==
    CHOOSE n \in Numbers(text) : \A o \in Numbers(text) : n[1] <= o[1]

NumberValue(text, n) == int(SubSeq(text, n[1], n[2]))

\* a recognized temperature-unit marker starts right after position b
FollowedByUnit(text, b) == UnitGroupEnd(text, b + 1) # b + 1

\* the numbers the sentence of C2 speaks of: one or two digits, and followed
\* by a unit marker or first in the text
UnitOrFirstNumbers(text) ==
    {n \in Numbers(text) :
        /\ n[2] - n[1] < 2
        /\ FollowedByUnit(text, n[2]) \/ n = FirstNumber(text)}

\* C2 as stated: for every number of one or two digits that is followed by a
\* unit marker or is the first number of the text, the father guardrail
\* triggers if and only if that number is less than 26.
C2_AsStated ==
    HasVerdict("father_temp_guardrail") =>
        \A n \in UnitOrFirstNumbers(MatchedText) :
            Verdict.tripwire_triggered <=> NumberValue(MatchedText, n) < 26

\* C2 as amended: when the first number of the text has one or two digits, the
\* father guardrail triggers if and only if that number is strictly less than
\* 26 (25 triggers, 26 does not), with or without a unit marker after it; a
\* later number decides nothing, even with a unit marker.
C2_FirstNumberThreshold ==
    (HasVerdict("father_temp_guardrail") /\ Numbers(MatchedText) # {}) =>
        LET n == FirstNumber(MatchedText)
        IN  n[2] - n[1] < 2 =>
                (Verdict.tripwire_triggered <=> NumberValue(MatchedText, n) < 26)

\* the first number is exactly 26, a unit marker follows it, and the guardrail
\* does not trigger
C2_Witness ==
    /\ HasVerdict("father_temp_guardrail")
    /\ Numbers(MatchedText) # {}
    /\ NumberValue(MatchedText, FirstNumber(MatchedText)) = 26
    /\ FollowedByUnit(MatchedText, FirstNumber(MatchedText)[2])
    /\ ~Verdict.tripwire_triggered

\* C5 as stated: a text with no ASCII digit gets a verdict that is not
\* triggered and has detected_temp = null, and detected_temp is null only for
\* a text with no digit.
C5_AsStated ==
    HasVerdict("father_temp_guardrail") =>
        /\ (\A q \in DOMAIN MatchedText : MatchedText[q] \notin Range(AsciiDigits))
              => (~Verdict.tripwire_triggered /\ Info.detected_temp = None)
        /\ Info.detected_temp = None
              => \A q \in DOMAIN MatchedText : ~IsDigit(MatchedText[q])

\* C5 as amended: a text with no decimal digit at all, ASCII or not, gets a
\* verdict that is not triggered and has detected_temp = null, and
\* detected_temp is null only for such a text.
C5_NoDigitNoTemp ==
    HasVerdict("father_temp_guardrail") =>
        /\ (\A q \in DOMAIN MatchedText : ~IsDigit(MatchedText[q]))
              <=> Info.detected_temp = None
        /\ Info.detected_temp = None => ~Verdict.tripwire_triggered

\* a text that is not empty, holds a unit marker and no digit
C5_Witness ==
    /\ HasVerdict("father_temp_guardrail")
    /\ Info.detected_temp = None
    /\ ~Verdict.tripwire_triggered
    /\ \E q \in DOMAIN MatchedText : MatchedText[q] = DegreeSign

\* C8: detected_temp is the integer of the first one or two digits of the
\* leftmost run of digits, whatever follows them (a unit marker, more digits,
\* later numbers), and the guardrail triggers exactly when it is below 26.
C8_FirstTwoDigits ==
    (HasVerdict("father_temp_guardrail")
        /\ \E q \in DOMAIN MatchedText : IsDigit(MatchedText[q])) =>
        LET first == CHOOSE q \in DOMAIN MatchedText :
                        /\ IsDigit(MatchedText[q])
                        /\ \A r \in 1..(q - 1) : ~IsDigit(MatchedText[r])
            d1 == DigitValue(MatchedText[first])
            d == IF IsDigit(CharAt(MatchedText, first + 1))
                 THEN 10 * d1 + DigitValue(MatchedText[first + 1])
                 ELSE d1
        IN  /\ Info.detected_temp = Some(d)
            /\ Verdict.tripwire_triggered <=> d < 26

\* a run of three digits or more is cut to its first two, which trigger
C8_Witness ==
    /\ HasVerdict("father_temp_guardrail")
    /\ Numbers(MatchedText) # {}
    /\ LET n == FirstNumber(MatchedText)
       IN  /\ n[2] - n[1] >= 2
           /\ NumberValue(MatchedText, n) >= 26
           /\ Verdict.tripwire_triggered
           /\ Info.detected_temp = Some(25)

\* ------------------------------------------------------------------------
\* C3, C4, C9: the gatekeeper
\* ------------------------------------------------------------------------

HasAllowPhrase(text) ==
    contains(FromMySchool, text) \/ contains(MySchoolStudent, text)

DenyPhrases ==
    { <<"o","t","h","e","r"," ","s","c","h","o","o","l">>,
      <<"d","i","f","f","e","r","e","n","t"," ","s","c","h","o","o","l">>,
      <<"n","o","t"," ","f","r","o","m"," ","m","y"," ","s","c","h","o","o","l">>,
      <<"f","r","o","m"," ","o","t","h","e","r"," ","s","c","h","o","o","l">>,
      <<"s","t","u","d","e","n","t"," ","f","r","o","m"," ">> }

HasDenyPhrase(text) == \E d \in DenyPhrases : contains(d, text)

\* C3: a text with an allow phrase ("from my school", "my school student") is
\* never triggered and is reported allowed, whatever deny phrase or school
\* name it also holds.
C3_AllowWins ==
    (HasVerdict("gatekeeper_guardrail") /\ HasAllowPhrase(MatchedText)) =>
        /\ ~Verdict.tripwire_triggered
        /\ "allowed" \in DOMAIN Info
        /\ Info.allowed = TRUE

\* an allowed text that also holds the deny phrase "other school"
C3_Witness ==
    /\ HasVerdict("gatekeeper_guardrail")
    /\ HasAllowPhrase(MatchedText)
    /\ contains(<<"o","t","h","e","r"," ","s","c","h","o","o","l">>, MatchedText)
    /\ ~Verdict.tripwire_triggered

\* C4: a text with no allow phrase and at least one deny phrase is triggered
\* with reason "other school detected" and no school_name, whichever deny
\* phrase it holds.
C4_DenyPhraseTriggers ==
    (HasVerdict("gatekeeper_guardrail")
        /\ ~HasAllowPhrase(MatchedText) /\ HasDenyPhrase(MatchedText)) =>
        /\ Verdict.tripwire_triggered
        /\ "reason" \in DOMAIN Info
        /\ Info.reason = "other school detected"
        /\ "school_name" \notin DOMAIN Info

\* the only deny phrase of the text is the last of the list, "student from ",
\* and the text names no school
C4_Witness ==
    /\ HasVerdict("gatekeeper_guardrail")
    /\ Verdict.tripwire_triggered
    /\ ~HasAllowPhrase(MatchedText)
    /\ contains(<<"s","t","u","d","e","n","t"," ","f","r","o","m"," ">>, MatchedText)
    /\ ~contains(SchoolWord, MatchedText)

\* "school" stands at position i
SchoolAt(text, i) ==
    /\ i + Len(SchoolWord) - 1 <= Len(text)
    /\ SubSeq(text, i, i + Len(SchoolWord) - 1) = SchoolWord

\* the positions g at which a token can start after the "school" at i:
\* only separators lie between the word and g, and a token character is at g
TokenStarts(text, i) ==
    {g \in (i + Len(SchoolWord))..Len(text) :
        /\ \A q \in (i + Len(SchoolWord))..(g - 1) :
              text[q] \in {":", "-", " ", "\t", "\n", "\r"}
        /\ IsNameChar(text[g])}

\* the token captured by the leftmost match: after the leftmost "school" that
\* a token can follow, the longest separator run, then the longest token
CapturedToken(text) ==
    LET at == {i \in DOMAIN text : SchoolAt(text, i) /\ TokenStarts(text, i) # {}}
        i == CHOOSE x \in at : \A y \in at : x <= y
        g == CHOOSE x \in TokenStarts(text, i) :
                \A y \in TokenStarts(text, i) : y <= x
        e == CHOOSE x \in g..Len(text) :
                /\ \A q \in g..x : IsNameChar(text[q])
                /\ ~IsNameChar(CharAt(text, x + 1))
    IN  IF at = {} THEN None ELSE Some(SubSeq(text, g, e))

\* a token without its leading and trailing whitespace
Trimmed(tok) ==
    LET solid == {q \in DOMAIN tok : ~IsSpace(tok[q])}
    IN  IF solid = {} THEN <<>>
        ELSE SubSeq(tok,
                    CHOOSE a \in solid : \A b \in solid : a <= b,
                    CHOOSE a \in solid : \A b \in solid : b <= a)

\* C9: with no allow phrase and no deny phrase, the gatekeeper triggers if and
\* only if the leftmost match of "school", separators and a token captures a
\* token that does not contain "my school", and reports the trimmed token as
\* school_name; otherwise the verdict is not triggered, with allowed = true.
C9_FallbackParse ==
    (HasVerdict("gatekeeper_guardrail")
        /\ ~HasAllowPhrase(MatchedText) /\ ~HasDenyPhrase(MatchedText)) =>
        LET tok == CapturedToken(MatchedText)
            rejected == tok # None /\ ~contains(MySchool, tok[1])
        IN  /\ Verdict.tripwire_triggered <=> rejected
            /\ rejected =>
                  /\ "school_name" \in DOMAIN Info
                  /\ Info.school_name = Trimmed(tok[1])
            /\ ~rejected =>
                  /\ "allowed" \in DOMAIN Info
                  /\ Info.allowed = TRUE

\* the separator run gave back its last space to the token, which trims to
\* the empty school name
C9_Witness ==
    /\ HasVerdict("gatekeeper_guardrail")
    /\ ~HasAllowPhrase(MatchedText) /\ ~HasDenyPhrase(MatchedText)
    /\ Verdict.tripwire_triggered
    /\ "school_name" \in DOMAIN Info
    /\ Info.school_name = <<>>
    /\ contains(<<":","-"," ","!">>, MatchedText)

\* ------------------------------------------------------------------------
\* C6, C10: normalization
\* ------------------------------------------------------------------------

\* C6 as stated: the diagnostics field text of every verdict is the lowercased
\* flattened text that the matching was performed on.
C6_AsStated ==
    guardrail_results # <<>> => Info.text = MatchedText

\* C6 as amended: the diagnostics field text of every verdict of the three
\* guardrails, triggered or not, is the flattened input in its original case
\* (the space-joined element texts, or the string itself), and the matching
\* is performed on its lowercase.
C6_TextIsOriginalCase ==
    guardrail_results # <<>> =>
        /\ Info.text = FlatText(input)
        /\ lower(Info.text) = MatchedText

\* a triggered verdict whose text field is not lowercase
C6_Witness ==
    /\ guardrail_results # <<>>
    /\ Verdict.tripwire_triggered
    /\ Info.text # lower(Info.text)
    /\ input.is_list

\* C10: for a list input every guardrail returns the verdict it returns for
\* the single string made of the element texts (content if present, else the
\* string form) in list order with exactly one space between consecutive
\* elements and nothing at either end.
C10_ListAsJoinedString ==
    (guardrail_results # <<>> /\ input.is_list) =>
        Verdict = call_guardrail(agent.input_guardrails[1],
                                 StrInput(SpaceJoined(input.items)))

\* the phrase is split over two messages, neither of which holds it, the
\* guardrail triggers, and it would not with the two messages swapped
C10_Witness ==
    /\ HasVerdict("class_timing_guardrail")
    /\ input.is_list
    /\ Len(input.items) = 2
    /\ input.items[1].has_content
    /\ ~input.items[2].has_content
    /\ Verdict.tripwire_triggered
    /\ \A k \in 1..2 :
          ~contains(ClassTimingPhrase, lower(ElementText(input.items[k])))
    /\ ~class_timing_guardrail(
           ListInput(<<input.items[2], input.items[1]>>)).tripwire_triggered

\* ------------------------------------------------------------------------
\* C7: main()
\* ------------------------------------------------------------------------

\* what main() prints when every run hits its guardrail
ExpectedOutput ==
    <<Exercises[1].header, Exercises[1].log,
      Exercises[2].header, Exercises[2].log,
      Exercises[3].header, Exercises[3].log>>

\* C7: in main() the three exercises run in order; each run evaluates the
\* guardrail of its agent on the fixed input, which triggers, so the runner
\* raises instead of executing the agent, no "Unexpected" line is printed,
\* the [LOG] line is printed and the next exercise follows; and whoever the
\* caller, an agent is executed only after a verdict that is not triggered.
C7_MainHitsEveryGuardrail ==
    /\ caller = "main" =>
          /\ model_calls = 0
          /\ pc # "returned"
          /\ Len(stdout) <= Len(ExpectedOutput)
          /\ stdout = SubSeq(ExpectedOutput, 1, Len(stdout))
          /\ pc \in {"run_decide", "raised"} =>
                /\ agent = Exercises[exercise].agent
                /\ input = StrInput(Exercises[exercise].input)
                /\ Verdict.tripwire_triggered
          /\ pc \in {"main_print", "main_call"} =>
                Len(stdout) >= 2 * (exercise - 1)
          /\ pc = "done" => stdout = ExpectedOutput
    /\ model_calls > 0 =>
          /\ guardrail_results # <<>>
          /\ \A k \in DOMAIN guardrail_results :
                ~guardrail_results[k].tripwire_triggered

\* main() has finished after three raised tripwires
C7_Witness ==
    /\ caller = "main"
    /\ pc = "done"
    /\ Len(stdout) = 6
    /\ model_calls = 0

====
